---- MODULE Spec2Model ----
(***************************************************************************)
(* State-machine model of the Pokemon minigame engine in src/src/App.tsx:  *)
(* the four round generators, the answer validators and the session state  *)
(* machine (React state, effects, timers and animation frames).            *)
(*                                                                         *)
(* Conventions                                                             *)
(*  - a creature reference (left, right, focus) is an index into the       *)
(*    loaded catalog `pokemon`; 0 stands for null;                         *)
(*  - text that the code normalises (names, typed guesses) is a sequence   *)
(*    of one-character strings; move names are plain strings, "" = none;   *)
(*  - an optional id (excludeId, lastKeptId) is a set with at most one     *)
(*    element, {} standing for undefined/null;                             *)
(*  - a pending callback is a one-element sequence holding the closure it  *)
(*    captured, <<>> when nothing is pending;                              *)
(*  - Math.random() is a nondeterministic choice, so a generator denotes   *)
(*    the set of results its draws can produce.                            *)
(*  Display-only state (feedback, revealValues, audio) is not modelled.    *)
(***************************************************************************)
EXTENDS Integers, Sequences, FiniteSets, TLC

VARIABLES
  mode, pokemon, popularMoves, status, left, right, focus, stat, moveName,
  guess, score, compareScore, trueFalseScore, dexScore, dexGuess, dexAnswer,
  error, lastKeptId, movePool,
  statHighScore, compareHighScore, trueFalseHighScore, dexHighScore,
  localStorage,
  revealFrame, resultTimer, dexTimerRef,
  dataset, popularFile, loading, modeChanges,
  isTrue, superseded, ignored, gaveUp, written, run

pageVars == << mode, pokemon, popularMoves, status, left, right, focus, stat,
           moveName, guess, score, compareScore, trueFalseScore, dexScore,
           dexGuess, dexAnswer, error, lastKeptId, movePool,
           statHighScore, compareHighScore, trueFalseHighScore, dexHighScore,
           localStorage,
           revealFrame, resultTimer, dexTimerRef,
           dataset, popularFile, loading, modeChanges,
           isTrue, superseded, ignored, gaveUp, written >>

vars == << pageVars, run >>

----------------------------------------------------------------------------
(* Program constants *)

STAT_KEYS == <<"hp", "attack", "defense", "special-attack", "special-defense", "speed">>

\* the guard of every redraw loop (pickRandomPokemon, pickDexPokemon,
\* startStatRound, the inner loop of startMoveCompareRound)
GuardLimit == 40

\* the outer attempt budget of startMoveCompareRound / startTrueFalseRound
AttemptLimit == 80

\* the reveal animation's duration, in ms
duration == 1500

\* dexSuggestions keeps the first 8 matches
SuggestionLimit == 8

GameModes == {"stat", "move-compare", "move-truefalse", "dex-guess"}

MovePools == {"popular", "smogon", "vgc", "all"}

----------------------------------------------------------------------------
(* Bounds of the model *)

\* accepted guesses stop once the four running scores add up to this
MaxTotalScore == 2

\* the menu buttons and the Back button are used at most this often
MaxModeChanges == 3

\* the longest text enumerated as a typed guess
MaxLen == 3

\* the elapsed times (ms since the reveal effect started) at which an
\* animation frame may be delivered
FrameTimes == {750, 1500, 2250}

----------------------------------------------------------------------------
(* Text *)

LowerOf == [c \in {"A","B","E","I","M","R","W"} |->
              CASE c = "A" -> "a" [] c = "B" -> "b" [] c = "E" -> "e"
                [] c = "I" -> "i" [] c = "M" -> "m" [] c = "R" -> "r"
                [] c = "W" -> "w"]

\* String.prototype.toLowerCase, on the characters the model uses
ToLowerCase(value) ==
  [i \in 1..Len(value) |-> IF value[i] \in DOMAIN LowerOf THEN LowerOf[value[i]] ELSE value[i]]

AlnumLower == {"a","b","e","i","m","r","w","0","1","2","9"}

\* .replace(/[^a-z0-9]/g, '')
StripNonAlnum(value) == SelectSeq(value, LAMBDA c : c \in AlnumLower)

Whitespace == {" "}

RECURSIVE TrimLeft(_)
TrimLeft(value) ==
  IF Len(value) > 0 /\ Head(value) \in Whitespace THEN TrimLeft(Tail(value)) ELSE value

RECURSIVE TrimRight(_)
TrimRight(value) ==
  IF Len(value) > 0 /\ value[Len(value)] \in Whitespace
    THEN TrimRight(SubSeq(value, 1, Len(value) - 1)) ELSE value

\* String.prototype.trim
Trim(value) == TrimRight(TrimLeft(value))

\* normalizeAnswer without toLowerCase
normalizeAnswerKeepCase(value) == Trim(StripNonAlnum(value))

normalizeAnswer(value) == Trim(StripNonAlnum(ToLowerCase(value)))

\* String.prototype.toUpperCase on one character
CharToUpperCase(c) ==
  IF \E u \in DOMAIN LowerOf : LowerOf[u] = c
    THEN CHOOSE u \in DOMAIN LowerOf : LowerOf[u] = c
    ELSE c

RECURSIVE Split(_, _)
\* String.prototype.split on a one-character separator
Split(value, sep) ==
  IF \A i \in 1..Len(value) : value[i] # sep THEN << value >>
  ELSE LET i == CHOOSE k \in 1..Len(value) :
                  value[k] = sep /\ \A j \in 1..(k - 1) : value[j] # sep
       IN  << SubSeq(value, 1, i - 1) >> \o Split(SubSeq(value, i + 1, Len(value)), sep)

RECURSIVE Join(_, _)
\* Array.prototype.join
Join(parts, sep) ==
  IF Len(parts) = 0 THEN <<>>
  ELSE IF Len(parts) = 1 THEN parts[1]
  ELSE parts[1] \o <<sep>> \o Join(Tail(parts), sep)

\* part.charAt(0).toUpperCase() + part.slice(1)
Capitalize(part) ==
  IF part = <<>> THEN <<>> ELSE << CharToUpperCase(part[1]) >> \o Tail(part)

formatName(name) ==
  LET parts == Split(name, "-")
  IN  Join([i \in 1..Len(parts) |-> Capitalize(parts[i])], " ")

\* String.prototype.startsWith
StartsWith(value, prefix) ==
  Len(prefix) <= Len(value) /\ SubSeq(value, 1, Len(prefix)) = prefix

----------------------------------------------------------------------------
(* The catalogs and curated move lists the load may deliver *)

Stats(hp, at, df, sa, sd, sp) ==
  [k \in {"hp", "attack", "defense", "special-attack", "special-defense", "speed"} |->
     CASE k = "hp" -> hp [] k = "attack" -> at [] k = "defense" -> df
       [] k = "special-attack" -> sa [] k = "special-defense" -> sd
       [] k = "speed" -> sp]

MrMime == [id |-> 122, name |-> <<"m","r","-","m","i","m","e">>,
           stats |-> Stats(40, 45, 65, 100, 120, 90),
           moves |-> <<"tackle", "psychic">>, flavorText |-> "It is a pantomime expert."]

\* shares hp, defense and speed with MrMime; knows no move MrMime does not
Abra == [id |-> 63, name |-> <<"a","b","r","a">>,
         stats |-> Stats(40, 20, 65, 105, 55, 90),
         moves |-> <<"tackle">>, flavorText |-> ""]

Mew == [id |-> 151, name |-> <<"m","e","w">>,
        stats |-> Stats(100, 100, 100, 100, 100, 100),
        moves |-> <<"pound", "psychic">>, flavorText |-> "Its DNA contains every move."]

NoStore == [k \in {"stat-guesser-high-score", "move-compare-high-score",
                    "move-truefalse-high-score", "dex-guess-high-score"} |-> 0]

\* The environments the page may start in:
\*   dataset      data/pokemon.json as the load delivers it: <<>> when the
\*                file is missing (fetchWithFallback returns null), else
\*                <<data.pokemon>>
\*   popularFile  data/popular-moves.json: <<>> when missing, else the document
\*   store        the external key-value store; 0 stands for an absent key
Environments ==
  { [dataset |-> <<>>, popularFile |-> <<>>, store |-> NoStore],
    [dataset |-> << <<Abra>> >>, popularFile |-> <<>>, store |-> NoStore],
    [dataset |-> << <<MrMime, Abra>> >>,
     popularFile |-> << [moves |-> [smogon |-> <<"psychic">>, vgc |-> <<>>,
                                    combined |-> <<"psychic">>]] >>,
     store |-> NoStore],
    [dataset |-> << <<MrMime, Abra, Mew>> >>, popularFile |-> <<>>,
     store |-> [NoStore EXCEPT !["dex-guess-high-score"] = 1]] }

\* the texts the player may type into the dex-guess field
DexInputs == { <<"M","R","-","M","I","M","E">>, <<"m","r"," ","m","i","m","e","e">>, <<"m","e","w">> }

HIGH_SCORE_KEYS ==
  [stat |-> "stat-guesser-high-score", compare |-> "move-compare-high-score",
   truefalse |-> "move-truefalse-high-score", dex |-> "dex-guess-high-score"]

StorageKeys == {HIGH_SCORE_KEYS[k] : k \in DOMAIN HIGH_SCORE_KEYS}

----------------------------------------------------------------------------
(* Sampler *)

Includes(seq, x) == \E i \in 1..Len(seq) : seq[i] = x

\* The counter of a bounded redraw loop after one more pass.  Every pass from
\* the second on starts from the same candidates (the results of one redraw)
\* and so exits with the same results as the second: the loops below are
\* evaluated for the first pass, the second, and the exit with the counter at
\* its limit, which yields the same set of results as evaluating every pass.
NextPass(counter, limit) == IF counter >= 1 /\ counter < limit THEN limit ELSE counter + 1

\* `excludeId && ...`: undefined and 0 are falsy
Truthy(optId) == optId # {} /\ optId # {0}

RECURSIVE PickLoop(_, _, _, _)
\* the values `candidate` may hold when the while loop of pickRandomPokemon
\* exits, given the set `cands` it may hold at the loop head
PickLoop(pk, excludeId, cands, guard) ==
  LET again == {c \in cands : Truthy(excludeId) /\ pk[c].id \in excludeId /\ guard < GuardLimit}
  IN  IF again = {} THEN cands
      ELSE (cands \ again) \cup PickLoop(pk, excludeId, DOMAIN pk, NextPass(guard, GuardLimit))

pickRandomPokemon(pk, excludeId) ==
  IF Len(pk) = 0 THEN {0} ELSE PickLoop(pk, excludeId, DOMAIN pk, 0)

\* moveSet: <<>> for null (no filter), else <<set of allowed moves>>
MovePoolOf(mon, moveSet) ==
  IF moveSet # <<>> THEN SelectSeq(mon.moves, LAMBDA m : m \in moveSet[1]) ELSE mon.moves

pickMoveFrom(mon, moveSet) ==
  LET pool == MovePoolOf(mon, moveSet)
  IN  IF Len(pool) = 0 THEN {""} ELSE {pool[i] : i \in 1..Len(pool)}

\* no generator call in progress
Idle ==
  [fn |-> "idle", pc |-> "done", out |-> "", excludeId |-> {}, candidate |-> 0,
   guard |-> 0, attempts |-> 0, left |-> 0, right |-> 0, stat |-> "", move |-> ""]

RECURSIVE DexLoop(_, _, _)
DexLoop(pk, cands, guard) ==
  LET again == {c \in cands : pk[c].flavorText = "" /\ guard < GuardLimit}
  IN  IF again = {} THEN cands
      ELSE (cands \ again) \cup DexLoop(pk, DOMAIN pk, NextPass(guard, GuardLimit))

pickDexPokemon(pk) ==
  IF Len(pk) = 0 THEN {0} ELSE DexLoop(pk, DOMAIN pk, 0)

----------------------------------------------------------------------------
(* The component's state as one value: what a render sees, what a closure   *)
(* captures and what a handler's batched setState calls produce.  gaveUp     *)
(* is set by the round generators: it tells whether the generator called    *)
(* last in the current event ran out of its retry budget.                   *)

S ==
  [ mode |-> mode, pokemon |-> pokemon, popularMoves |-> popularMoves,
    status |-> status, left |-> left, right |-> right, focus |-> focus,
    stat |-> stat, moveName |-> moveName, guess |-> guess,
    score |-> score, compareScore |-> compareScore,
    trueFalseScore |-> trueFalseScore, dexScore |-> dexScore,
    dexGuess |-> dexGuess, dexAnswer |-> dexAnswer, error |-> error,
    lastKeptId |-> lastKeptId, movePool |-> movePool,
    statHighScore |-> statHighScore, compareHighScore |-> compareHighScore,
    trueFalseHighScore |-> trueFalseHighScore, dexHighScore |-> dexHighScore,
    localStorage |-> localStorage,
    revealFrame |-> revealFrame, resultTimer |-> resultTimer,
    dexTimerRef |-> dexTimerRef, isTrue |-> isTrue, gaveUp |-> FALSE,
    written |-> {} ]

\* the React state of s: s without its pending callbacks
Closure(s) ==
  [s EXCEPT !.revealFrame = <<>>, !.resultTimer = <<>>, !.dexTimerRef = <<>>,
            !.gaveUp = FALSE, !.written = {}]

\* Math.max replaced by its second argument: the score overwrites the record
MaxAsSecond(a, b) == b

\* Math.max
Max(a, b) == IF a >= b THEN a ELSE b

----------------------------------------------------------------------------
(* Derived values (useMemo) *)

\* activeMovePool giving an empty list, not null, when no curated list is
\* loaded
activeMovePoolNoFallback(s) ==
  IF s.movePool = "all" THEN <<>>
  ELSE IF s.popularMoves = <<>> THEN << <<>> >>
  ELSE IF s.movePool = "smogon" THEN <<s.popularMoves[1].moves.smogon>>
  ELSE IF s.movePool = "vgc" THEN <<s.popularMoves[1].moves.vgc>>
  ELSE <<s.popularMoves[1].moves.combined>>

activeMovePool(s) ==
  IF s.popularMoves = <<>> \/ s.movePool = "all" THEN <<>>
  ELSE IF s.movePool = "smogon" THEN <<s.popularMoves[1].moves.smogon>>
  ELSE IF s.movePool = "vgc" THEN <<s.popularMoves[1].moves.vgc>>
  ELSE <<s.popularMoves[1].moves.combined>>

activeMoveSet(s) ==
  IF activeMovePool(s) = <<>> THEN <<>>
  ELSE << {activeMovePool(s)[1][i] : i \in 1..Len(activeMovePool(s)[1])} >>

\* which array activeMovePool refers to: the identity useMemo compares
ActivePoolKey(s) ==
  IF s.popularMoves = <<>> \/ s.movePool = "all" THEN "null"
  ELSE IF s.movePool \in {"smogon", "vgc"} THEN s.movePool ELSE "combined"

currentLeftValue(s) == IF s.left # 0 THEN s.pokemon[s.left].stats[s.stat] ELSE 0
currentRightValue(s) == IF s.right # 0 THEN s.pokemon[s.right].stats[s.stat] ELSE 0

----------------------------------------------------------------------------
(* Answer validator *)

isStatCorrect(s) ==
  IF s.guess = "null" \/ s.left = 0 \/ s.right = 0 THEN FALSE
  ELSE IF currentLeftValue(s) = currentRightValue(s) THEN FALSE
  ELSE IF s.guess = "left" THEN currentLeftValue(s) > currentRightValue(s)
  ELSE currentRightValue(s) > currentLeftValue(s)

\* isMoveCompareCorrect without `if (leftHas === rightHas) return false`
isMoveCompareCorrectChosenHas(s) ==
  IF s.guess = "null" \/ s.left = 0 \/ s.right = 0 \/ s.moveName = "" THEN FALSE
  ELSE IF s.guess = "left" THEN Includes(s.pokemon[s.left].moves, s.moveName)
  ELSE Includes(s.pokemon[s.right].moves, s.moveName)

isMoveCompareCorrect(s) ==
  IF s.guess = "null" \/ s.left = 0 \/ s.right = 0 \/ s.moveName = "" THEN FALSE
  ELSE LET leftHas == Includes(s.pokemon[s.left].moves, s.moveName)
           rightHas == Includes(s.pokemon[s.right].moves, s.moveName)
       IN  IF leftHas = rightHas THEN FALSE
           ELSE IF s.guess = "left" THEN leftHas ELSE rightHas

isTrueFalseCorrect(s) ==
  IF s.guess = "null" \/ s.focus = 0 \/ s.moveName = "" THEN FALSE
  ELSE LET hasMove == Includes(s.pokemon[s.focus].moves, s.moveName)
       IN  s.guess = (IF hasMove THEN "true" ELSE "false")

\* dexSuggestions without its .slice(0, 8)
dexSuggestionsUnsliced(s) ==
  LET query == normalizeAnswer(s.dexGuess)
      matches == SelectSeq(s.pokemon,
                           LAMBDA mon : StartsWith(normalizeAnswer(mon.name), query))
  IN  IF query = <<>> THEN <<>>
      ELSE [i \in 1..Len(matches) |-> matches[i].name]

\* the names offered under the guess field: the first SuggestionLimit
\* catalog names whose normalized form starts with the normalized guess
dexSuggestions(s) ==
  LET query == normalizeAnswer(s.dexGuess)
      matches == SelectSeq(s.pokemon,
                           LAMBDA mon : StartsWith(normalizeAnswer(mon.name), query))
      shown == IF Len(matches) < SuggestionLimit THEN Len(matches) ELSE SuggestionLimit
  IN  IF query = <<>> THEN <<>>
      ELSE [i \in 1..shown |-> matches[i].name]

\* isDexCorrect comparing the texts as typed
isDexCorrectExact(s) ==
  IF s.dexAnswer = <<>> THEN FALSE
  ELSE s.dexGuess = s.dexAnswer

isDexCorrect(s) ==
  IF s.dexAnswer = <<>> THEN FALSE
  ELSE normalizeAnswer(s.dexGuess) = normalizeAnswer(s.dexAnswer)

----------------------------------------------------------------------------
(* Round generators.  c is the render whose closure the generator runs in,  *)
(* s the state its setState calls are applied to; the result is the set of  *)
(* states the random draws can lead to.                                     *)

StatKeySet == {STAT_KEYS[i] : i \in 1..Len(STAT_KEYS)}

RECURSIVE StatLoop(_, _, _, _, _)
\* the <<nextRight, nextStat>> pairs with which the while loop of
\* startStatRound may exit; draws = what one redraw can deliver
StatLoop(pk, nextLeft, draws, cands, guard) ==
  LET again == {c \in cands : guard < GuardLimit /\ c[1] # 0
                   /\ pk[nextLeft].stats[c[2]] = pk[c[1]].stats[c[2]]}
  IN  IF again = {} THEN cands
      ELSE (cands \ again) \cup StatLoop(pk, nextLeft, draws, draws, NextPass(guard, GuardLimit))

StatRoundFrom(c, s, nextLeft) ==
  LET pk == c.pokemon
      rights == pickRandomPokemon(pk, {pk[nextLeft].id})
      draws == rights \X StatKeySet
  IN  IF 0 \in rights THEN {s}
      ELSE { [s EXCEPT !.left = nextLeft, !.right = r[1], !.stat = r[2], !.guess = "null",
                       !.gaveUp = (pk[nextLeft].stats[r[2]] = pk[r[1]].stats[r[2]])] :
               r \in UNION { StatLoop(pk, nextLeft, d, d, 0) : d \in {draws} } }

\* keep = 0 for null / undefined.  The loop leaves a pair with equal values
\* only when guard has reached its limit.
startStatRound(c, s, keep) ==
  IF Len(c.pokemon) < 2 THEN {s}
  ELSE UNION { IF nextLeft = 0 THEN {s} ELSE StatRoundFrom(c, s, nextLeft) :
                 nextLeft \in (IF keep # 0 THEN {keep} ELSE pickRandomPokemon(c.pokemon, {})) }

RECURSIVE RightLoop(_, _, _, _, _)
\* the values rightPick may hold when the inner while loop exits
RightLoop(pk, movePick, draws, cands, guard) ==
  LET again == {r \in cands : r # 0 /\ guard < GuardLimit /\ Includes(pk[r].moves, movePick)}
  IN  IF again = {} THEN cands
      ELSE (cands \ again) \cup RightLoop(pk, movePick, draws, draws, NextPass(guard, GuardLimit))

\* one pass of the outer loop of startMoveCompareRound: <<"round", left,
\* right, move>> when it sets a round, <<"retry">> when it continues,
\* <<"return">> when it returns without one
MoveCompareAttempt(c) ==
  LET pk == c.pokemon
  IN  UNION { IF leftPick = 0 THEN { <<"return">> }
              ELSE UNION { IF movePick = "" THEN { <<"retry">> }
                           ELSE LET draws == pickRandomPokemon(pk, {pk[leftPick].id})
                                IN  { IF rightPick = 0 THEN <<"retry">>
                                      ELSE <<"round", leftPick, rightPick, movePick>> :
                                        rightPick \in UNION { RightLoop(pk, movePick, d, d, 0) :
                                                                d \in {draws} } } :
                             movePick \in pickMoveFrom(pk[leftPick], activeMoveSet(c)) } :
                leftPick \in pickRandomPokemon(pk, {}) }

RECURSIVE AttemptLoop(_, _)
\* the outcomes of `while (attempts < 80)` over passes with outcomes `pass`
AttemptLoop(pass, attempts) ==
  IF attempts < AttemptLimit
    THEN (pass \ { <<"retry">> })
           \cup (IF <<"retry">> \in pass THEN AttemptLoop(pass, NextPass(attempts, AttemptLimit)) ELSE {})
    ELSE { <<"return">> }

\* the inner loop leaves a right creature that knows the move only when guard
\* has reached its limit; with two or more creatures the outer loop returns
\* without a round only when attempts has
startMoveCompareRound(c, s) ==
  IF Len(c.pokemon) < 2 THEN {s}
  ELSE { IF o[1] = "round"
           THEN [s EXCEPT !.left = o[2], !.right = o[3], !.moveName = o[4], !.guess = "null",
                          !.gaveUp = Includes(c.pokemon[o[3]].moves, o[4])]
           ELSE [s EXCEPT !.gaveUp = TRUE] :
         o \in UNION { AttemptLoop(pass, 0) : pass \in {MoveCompareAttempt(c)} } }

\* TrueFalseAttempt without the test that focus does not know the false move
TrueFalseAttemptAnyMove(c) ==
  LET pk == c.pokemon
  IN  UNION { IF pick = 0 THEN { <<"return">> }
              ELSE UNION { IF movePick = "" THEN { <<"retry">> }
                           ELSE { <<"round", pick, movePick, "true">> }
                                \cup UNION { IF other = 0 THEN { <<"retry">> }
                                             ELSE { IF falseMove = ""
                                                      THEN <<"retry">>
                                                      ELSE <<"round", pick, falseMove, "false">> :
                                                    falseMove \in pickMoveFrom(pk[other], activeMoveSet(c)) } :
                                               other \in pickRandomPokemon(pk, {pk[pick].id}) } :
                             movePick \in pickMoveFrom(pk[pick], activeMoveSet(c)) } :
                pick \in pickRandomPokemon(pk, {}) }

\* one pass of the outer loop of startTrueFalseRound: <<"round", focus,
\* move, isTrue>>, <<"retry">> or <<"return">>
TrueFalseAttempt(c) ==
  LET pk == c.pokemon
  IN  UNION { IF pick = 0 THEN { <<"return">> }
              ELSE UNION { IF movePick = "" THEN { <<"retry">> }
                           ELSE { <<"round", pick, movePick, "true">> }
                                \cup UNION { IF other = 0 THEN { <<"retry">> }
                                             ELSE { IF falseMove = "" \/ Includes(pk[pick].moves, falseMove)
                                                      THEN <<"retry">>
                                                      ELSE <<"round", pick, falseMove, "false">> :
                                                    falseMove \in pickMoveFrom(pk[other], activeMoveSet(c)) } :
                                               other \in pickRandomPokemon(pk, {pk[pick].id}) } :
                             movePick \in pickMoveFrom(pk[pick], activeMoveSet(c)) } :
                pick \in pickRandomPokemon(pk, {}) }

startTrueFalseRound(c, s) ==
  IF Len(c.pokemon) = 0 THEN {s}
  ELSE { IF o[1] = "round"
           THEN [s EXCEPT !.focus = o[2], !.moveName = o[3], !.guess = "null", !.isTrue = o[4],
                          !.gaveUp = FALSE]
           ELSE [s EXCEPT !.gaveUp = TRUE] :
         o \in UNION { AttemptLoop(pass, 0) : pass \in {TrueFalseAttempt(c)} } }

startDexRound(c, s) ==
  { IF pick = 0 THEN s
    ELSE [s EXCEPT !.focus = pick, !.dexAnswer = c.pokemon[pick].name, !.dexGuess = <<>>,
                   !.guess = "null", !.status = "ready",
                   !.gaveUp = (c.pokemon[pick].flavorText = "")] :
    pick \in pickDexPokemon(c.pokemon) }

----------------------------------------------------------------------------
(* Effects.  After a handler's state is committed React renders and runs    *)
(* every effect whose dependencies changed since the previous render; an    *)
(* effect that sets state causes another render.                            *)

cancelAnimationFrame(frame) == <<>>

\* a clearTimeout that cancels nothing
clearTimeoutNoOp(timer) == timer

clearTimeout(timer) == <<>>

RoundDeps(s) ==
  <<s.status, s.pokemon, s.mode, s.left, s.right, s.focus, ActivePoolKey(s)>>

RevealDeps(s) == <<s.status, s.left, s.right, s.stat, s.mode>>

ResultDeps(s) ==
  <<s.status, s.mode, s.left, s.right, s.focus, s.guess,
    isStatCorrect(s), isMoveCompareCorrect(s), isTrueFalseCorrect(s),
    s.score, s.compareScore, s.trueFalseScore, s.lastKeptId,
    s.pokemon, ActivePoolKey(s)>>

\* the reveal animation effect: its cleanup cancels the frame requested
\* last, then a first frame is requested while revealing.  A pending frame is
\* <<the time elapsed since `start` when the last frame was delivered>>.
revealEffect(prev, cur) ==
  IF RevealDeps(prev) = RevealDeps(cur) THEN cur.revealFrame
  ELSE IF cur.status # "revealing" \/ cur.left = 0 \/ cur.right = 0 \/ cur.mode # "stat"
    THEN cancelAnimationFrame(cur.revealFrame)
    ELSE <<0>>

\* the result timeout effect: its cleanup clears the timeout, then a new one
\* is set while status is result, closing over this render
resultEffect(prev, cur) ==
  IF ResultDeps(prev) = ResultDeps(cur) THEN cur.resultTimer
  ELSE IF cur.status # "result" THEN clearTimeout(cur.resultTimer)
  ELSE <<Closure(cur)>>

HighScoreOf(s, key) ==
  CASE key = HIGH_SCORE_KEYS.stat -> s.statHighScore
    [] key = HIGH_SCORE_KEYS.compare -> s.compareHighScore
    [] key = HIGH_SCORE_KEYS.truefalse -> s.trueFalseHighScore
    [] key = HIGH_SCORE_KEYS.dex -> s.dexHighScore

\* the four highScore states of a render
HighScores(s) ==
  << s.statHighScore, s.compareHighScore, s.trueFalseHighScore, s.dexHighScore >>

\* the four highScore states with the values of a store
StoredHighScores(store) ==
  [statHighScore |-> store[HIGH_SCORE_KEYS.stat],
   compareHighScore |-> store[HIGH_SCORE_KEYS.compare],
   trueFalseHighScore |-> store[HIGH_SCORE_KEYS.truefalse],
   dexHighScore |-> store[HIGH_SCORE_KEYS.dex]]

\* the guard of useHighScore's second effect without its test: every value
\* is written, zero included
persistValueAlways(highScore) == {highScore}

\* `if (highScore > 0)` in useHighScore's second effect: the value that
\* localStorage.setItem receives, if any
persistValue(highScore) == IF highScore > 0 THEN {highScore} ELSE {}

\* the localStorage.setItem calls of the render cur that follows prev: the
\* second effect of each useHighScore whose highScore changed
persistWrites(prev, cur) ==
  IF HighScores(cur) = HighScores(prev) THEN {}
  ELSE UNION { { <<key, v>> : v \in persistValue(HighScoreOf(cur, key)) } :
               key \in { k \in StorageKeys : HighScoreOf(cur, k) # HighScoreOf(prev, k) } }

\* the localStorage.setItem calls of the first render, in which every effect
\* runs and every highScore is still the initial 0
mountWrites ==
  UNION { { <<key, v>> : v \in persistValue(0) } : key \in StorageKeys }

\* useHighScore's second effect: the store is written when highScore changed
\* and is greater than zero
persistEffect(prev, cur) ==
  IF HighScores(cur) = HighScores(prev) THEN cur.localStorage
  ELSE [key \in StorageKeys |->
          IF \E w \in persistWrites(prev, cur) : w[1] = key
            THEN HighScoreOf(cur, key) ELSE cur.localStorage[key]]

\* the round-start effect
roundStartEffect(prev, cur) ==
  IF RoundDeps(prev) = RoundDeps(cur) THEN {cur}
  ELSE IF cur.status # "ready" \/ Len(cur.pokemon) = 0 THEN {cur}
  ELSE IF cur.mode = "stat" /\ cur.left = 0 /\ cur.right = 0
    THEN startStatRound(Closure(cur), cur, 0)
  ELSE IF cur.mode = "move-compare" /\ cur.left = 0 /\ cur.right = 0
    THEN startMoveCompareRound(Closure(cur), cur)
  ELSE IF cur.mode = "move-truefalse" /\ cur.focus = 0
    THEN startTrueFalseRound(Closure(cur), cur)
  ELSE IF cur.mode = "dex-guess" /\ cur.focus = 0
    THEN startDexRound(Closure(cur), cur)
  ELSE {cur}

WithCallbacks(prev, cur) ==
  [cur EXCEPT !.revealFrame = revealEffect(prev, cur),
              !.resultTimer = resultEffect(prev, cur),
              !.localStorage = persistEffect(prev, cur),
              !.written = cur.written \cup persistWrites(prev, cur)]

RECURSIVE Settle(_, _)
\* the states in which rendering comes to rest, from the render of `cur`
\* that follows the render of `prev`
Settle(prev, cur) ==
  LET shown == WithCallbacks(prev, cur)
  IN  UNION { IF n = shown THEN {n} ELSE Settle(shown, n) : n \in roundStartEffect(prev, shown) }

----------------------------------------------------------------------------
(* Handlers and callbacks, as functions of the render s they close over *)

\* handleGuess without the test of status
handleGuessAnyStatus(s, selection) ==
  [s EXCEPT !.guess = selection,
            !.status = IF s.mode = "stat" THEN "revealing" ELSE "result"]

handleGuess(s, selection) ==
  IF s.status # "ready" THEN s
  ELSE [s EXCEPT !.guess = selection,
                 !.status = IF s.mode = "stat" THEN "revealing" ELSE "result"]

\* handleDexSubmit counting a correct answer twice
handleDexSubmitTwice(s) ==
  IF s.dexAnswer = <<>> \/ s.status # "ready" THEN s
  ELSE IF isDexCorrect(s)
    THEN [s EXCEPT !.dexScore = @ + 2, !.status = "result",
                   !.dexTimerRef = <<Closure(s)>>]
    ELSE [s EXCEPT !.dexHighScore = Max(@, s.dexScore), !.status = "gameover"]

handleDexSubmit(s) ==
  IF s.dexAnswer = <<>> \/ s.status # "ready" THEN s
  ELSE IF isDexCorrect(s)
    THEN [s EXCEPT !.dexScore = @ + 1, !.status = "result",
                   !.dexTimerRef = <<Closure(s)>>]
    ELSE [s EXCEPT !.dexHighScore = Max(@, s.dexScore), !.status = "gameover"]

handleRestart(s) ==
  LET base == [s EXCEPT !.status = "ready", !.guess = "null",
                        !.dexTimerRef = clearTimeout(s.dexTimerRef)]
  IN  IF s.mode = "stat"
        THEN startStatRound(Closure(s), [base EXCEPT !.score = 0, !.lastKeptId = {}], 0)
      ELSE IF s.mode = "move-compare"
        THEN startMoveCompareRound(Closure(s), [base EXCEPT !.compareScore = 0])
      ELSE IF s.mode = "move-truefalse"
        THEN startTrueFalseRound(Closure(s), [base EXCEPT !.trueFalseScore = 0])
      ELSE IF s.mode = "dex-guess"
        THEN startDexRound(Closure(s), [base EXCEPT !.dexScore = 0])
      ELSE {base}

\* isTrue, which records the branch that produced the current true/false
\* round, is dropped with the round
\* handleModeChange that records the running stat score on the way out
handleModeChangeSavingScore(s, nextMode) ==
  [s EXCEPT !.mode = nextMode, !.status = "ready", !.guess = "null",
            !.left = 0, !.right = 0, !.focus = 0, !.moveName = "",
            !.dexGuess = <<>>, !.dexAnswer = <<>>,
            !.dexTimerRef = clearTimeout(s.dexTimerRef), !.isTrue = "none",
            !.statHighScore = Max(@, s.score)]

handleModeChange(s, nextMode) ==
  [s EXCEPT !.mode = nextMode, !.status = "ready", !.guess = "null",
            !.left = 0, !.right = 0, !.focus = 0, !.moveName = "",
            !.dexGuess = <<>>, !.dexAnswer = <<>>,
            !.dexTimerRef = clearTimeout(s.dexTimerRef), !.isTrue = "none"]

\* the winner is carried whatever was kept before
carryOfWinner(c, winner, loser) == winner

\* `winner.id === lastKeptId ? loser : winner`
carryOf(c, winner, loser) ==
  IF {c.pokemon[winner].id} = c.lastKeptId THEN loser ELSE winner

\* the callback of the result timeout effect; c is the render it closed over
resultTimeout(c, s) ==
  IF c.mode = "stat" /\ c.left # 0 /\ c.right # 0 /\ c.guess # "null" /\ isStatCorrect(c)
    THEN LET winner == IF c.guess = "left" THEN c.left ELSE c.right
             loser == IF c.guess = "left" THEN c.right ELSE c.left
             carry == carryOf(c, winner, loser)
         IN  { [t EXCEPT !.status = "ready"] :
                 t \in startStatRound(c, [s EXCEPT !.score = @ + 1,
                                                   !.lastKeptId = {c.pokemon[carry].id}], carry) }
  ELSE IF c.mode = "stat" /\ ~isStatCorrect(c)
    THEN { [s EXCEPT !.statHighScore = Max(@, c.score), !.status = "gameover"] }
  ELSE IF c.mode = "move-compare" /\ c.left # 0 /\ c.right # 0 /\ c.guess # "null"
            /\ isMoveCompareCorrect(c)
    THEN { [t EXCEPT !.status = "ready"] :
             t \in startMoveCompareRound(c, [s EXCEPT !.compareScore = @ + 1]) }
  ELSE IF c.mode = "move-compare" /\ ~isMoveCompareCorrect(c)
    THEN { [s EXCEPT !.compareHighScore = Max(@, c.compareScore), !.status = "gameover"] }
  ELSE IF c.mode = "move-truefalse" /\ c.focus # 0 /\ c.guess # "null" /\ isTrueFalseCorrect(c)
    THEN { [t EXCEPT !.status = "ready"] :
             t \in startTrueFalseRound(c, [s EXCEPT !.trueFalseScore = @ + 1]) }
  ELSE IF c.mode = "move-truefalse" /\ ~isTrueFalseCorrect(c)
    THEN { [s EXCEPT !.trueFalseHighScore = Max(@, c.trueFalseScore), !.status = "gameover"] }
  ELSE {s}

\* the callback handleDexSubmit schedules
dexTimeout(c, s) == { [t EXCEPT !.status = "ready"] : t \in startDexRound(c, s) }

\* one animation frame, delivered `time - start` = elapsed ms after the
\* effect started
step(s, elapsed) ==
  IF elapsed < duration THEN [s EXCEPT !.revealFrame = <<elapsed>>]
  ELSE [s EXCEPT !.revealFrame = <<>>, !.status = "result"]

----------------------------------------------------------------------------
(* Actions *)

Pending(s) ==
  (IF s.revealFrame # <<>> THEN {"frame"} ELSE {})
    \cup (IF s.resultTimer # <<>> THEN {"result"} ELSE {})
    \cup (IF s.dexTimerRef # <<>> THEN {"dex"} ELSE {})

TotalScore == score + compareScore + trueFalseScore + dexScore

\* the state t becomes the current state.  superseded records, after a
\* mode change, the callbacks that were pending when it was issued (and is
\* empty after every other event); ignored records that the event was a guess
\* made while status was not ready.
Commit(t, op) ==
  /\ mode' = t.mode /\ pokemon' = t.pokemon /\ popularMoves' = t.popularMoves
  /\ status' = t.status /\ left' = t.left /\ right' = t.right /\ focus' = t.focus
  /\ stat' = t.stat /\ moveName' = t.moveName /\ guess' = t.guess
  /\ score' = t.score /\ compareScore' = t.compareScore
  /\ trueFalseScore' = t.trueFalseScore /\ dexScore' = t.dexScore
  /\ dexGuess' = t.dexGuess /\ dexAnswer' = t.dexAnswer /\ error' = t.error
  /\ lastKeptId' = t.lastKeptId /\ movePool' = t.movePool
  /\ statHighScore' = t.statHighScore /\ compareHighScore' = t.compareHighScore
  /\ trueFalseHighScore' = t.trueFalseHighScore /\ dexHighScore' = t.dexHighScore
  /\ localStorage' = t.localStorage
  /\ revealFrame' = t.revealFrame /\ resultTimer' = t.resultTimer
  /\ dexTimerRef' = t.dexTimerRef /\ isTrue' = t.isTrue
  /\ superseded' = IF op = "modeChange" THEN Pending(S) ELSE {}
  /\ ignored' = (op = "guess" /\ status # "ready")
  /\ gaveUp' = t.gaveUp /\ written' = t.written
  /\ UNCHANGED <<dataset, popularFile, run>>

\* the page reacts to the player only while no error card is shown
Interactive == error = ""

\* the load effect's promise settles
LoadDataset ==
  /\ loading
  /\ loading' = FALSE
  /\ UNCHANGED modeChanges
  /\ IF dataset = <<>>
       THEN \E t \in Settle(S, [S EXCEPT !.error = "Missing local Pokemon dataset.",
                                         !.status = "loading"]) :
              Commit(t, "loadFailed")
       ELSE \E t \in Settle(S, [S EXCEPT !.pokemon = dataset[1], !.status = "ready"]) :
              Commit(t, "load")

\* loadPopularMoves settles with a document; with the file missing it
\* settles without setting any state, which leaves no trace to model
LoadPopularMoves ==
  /\ popularFile # <<>> /\ popularMoves = <<>>
  /\ \E t \in Settle(S, [S EXCEPT !.popularMoves = popularFile]) :
       Commit(t, "loadMoves")
  /\ UNCHANGED <<loading, modeChanges>>

HandleModeChange ==
  /\ Interactive
  /\ modeChanges < MaxModeChanges
  /\ modeChanges' = modeChanges + 1
  /\ UNCHANGED loading
  /\ \E nextMode \in (IF mode = "menu" THEN GameModes ELSE {"menu"}) :
       \E t \in Settle(S, handleModeChange(S, nextMode)) : Commit(t, "modeChange")

\* a click on a card (stat duel, move match: always wired) or on the
\* True / False buttons (disabled unless status is ready)
HandleGuess ==
  /\ Interactive
  /\ TotalScore < MaxTotalScore
  /\ \E selection \in (IF mode \in {"stat", "move-compare"} THEN {"left", "right"}
                       ELSE IF mode = "move-truefalse" /\ status = "ready" THEN {"true", "false"}
                       ELSE {}) :
       \E t \in Settle(S, handleGuess(S, selection)) : Commit(t, "guess")
  /\ UNCHANGED <<loading, modeChanges>>

\* typing into the dex-guess field (disabled unless status is ready)
SetDexGuess ==
  /\ Interactive
  /\ mode = "dex-guess" /\ status = "ready"
  /\ \E text \in DexInputs :
       \E t \in Settle(S, [S EXCEPT !.dexGuess = text]) : Commit(t, "type")
  /\ UNCHANGED <<loading, modeChanges>>

\* a press on one of the names offered under the guess field, shown while
\* status is ready: the field takes the formatted name
PickSuggestion ==
  /\ Interactive
  /\ mode = "dex-guess" /\ status = "ready"
  /\ \E i \in 1..Len(dexSuggestions(S)) :
       \E t \in Settle(S, [S EXCEPT !.dexGuess = formatName(dexSuggestions(S)[i])]) :
         Commit(t, "type")
  /\ UNCHANGED <<loading, modeChanges>>

\* a submit of the dex form; the guess field and the Submit button are
\* disabled unless status is ready, so the form can be submitted only then
HandleDexSubmit ==
  /\ Interactive
  /\ mode = "dex-guess" /\ status = "ready"
  /\ TotalScore < MaxTotalScore
  /\ UNCHANGED <<loading, modeChanges>>
  /\ \E t \in Settle(S, handleDexSubmit(S)) : Commit(t, "dexSubmit")

\* the Play again button, shown while status is gameover
HandleRestart ==
  /\ Interactive
  /\ mode \in GameModes /\ status = "gameover"
  /\ \E r \in handleRestart(S) : \E t \in Settle(S, r) : Commit(t, "restart")
  /\ UNCHANGED <<loading, modeChanges>>

\* the move pool buttons; all but All are disabled without a curated list
SetMovePool ==
  /\ Interactive
  /\ mode \in {"move-compare", "move-truefalse"}
  /\ \E p \in (IF popularMoves = <<>> THEN {"all"} ELSE {"popular", "smogon", "vgc", "all"}) :
       \E t \in Settle(S, [S EXCEPT !.movePool = p]) : Commit(t, "movePool")
  /\ UNCHANGED <<loading, modeChanges>>

\* the browser delivers the requested animation frame
AnimationFrame ==
  /\ revealFrame # <<>>
  /\ \E elapsed \in {e \in FrameTimes : e > revealFrame[1]} :
       \E t \in Settle(S, step(S, elapsed)) : Commit(t, "frame")
  /\ UNCHANGED <<loading, modeChanges>>

\* the 1200 ms result timeout fires
ResultTimeout ==
  /\ resultTimer # <<>>
  /\ UNCHANGED <<loading, modeChanges>>
  /\ \E r \in resultTimeout(resultTimer[1], [S EXCEPT !.resultTimer = <<>>]) :
       \E t \in Settle(S, r) : Commit(t, "resultTimeout")

\* the 1200 ms dex auto-advance timeout fires
DexTimeout ==
  /\ dexTimerRef # <<>>
  /\ \E r \in dexTimeout(dexTimerRef[1], [S EXCEPT !.dexTimerRef = <<>>]) :
       \E t \in Settle(S, r) : Commit(t, "dexTimeout")
  /\ UNCHANGED <<loading, modeChanges>>

\* the state after the first render and its mount effects: the stored high
\* scores are read, the move pool falls back to all (no curated list yet),
\* both loads are in flight
Init ==
  /\ mode = "menu" /\ pokemon = <<>> /\ popularMoves = <<>> /\ status = "loading"
  /\ left = 0 /\ right = 0 /\ focus = 0 /\ stat = "attack" /\ moveName = ""
  /\ guess = "null"
  /\ score = 0 /\ compareScore = 0 /\ trueFalseScore = 0 /\ dexScore = 0
  /\ dexGuess = <<>> /\ dexAnswer = <<>> /\ error = "" /\ lastKeptId = {}
  /\ movePool = "all"
  /\ \E env \in Environments :
       /\ dataset = env.dataset /\ popularFile = env.popularFile
       /\ localStorage = env.store
  /\ statHighScore = localStorage[HIGH_SCORE_KEYS.stat]
  /\ compareHighScore = localStorage[HIGH_SCORE_KEYS.compare]
  /\ trueFalseHighScore = localStorage[HIGH_SCORE_KEYS.truefalse]
  /\ dexHighScore = localStorage[HIGH_SCORE_KEYS.dex]
  /\ revealFrame = <<>> /\ resultTimer = <<>> /\ dexTimerRef = <<>>
  /\ loading = TRUE /\ modeChanges = 0
  /\ isTrue = "none" /\ superseded = {} /\ ignored = FALSE /\ gaveUp = FALSE
  /\ written = mountWrites
                 \cup persistWrites(StoredHighScores(NoStore), StoredHighScores(localStorage))
  /\ run = Idle

Next ==
  \/ LoadDataset
  \/ LoadPopularMoves
  \/ HandleModeChange
  \/ HandleGuess
  \/ SetDexGuess
  \/ PickSuggestion
  \/ HandleDexSubmit
  \/ HandleRestart
  \/ SetMovePool
  \/ AnimationFrame
  \/ ResultTimeout
  \/ DexTimeout

Spec == Init /\ [][Next]_vars

\* The browser delivers every animation frame that was requested and not
\* cancelled; the player is under no obligation to act.
FairSpec == Init /\ [][Next]_vars /\ WF_vars(AnimationFrame)

----------------------------------------------------------------------------
(* Judging a dex guess on arbitrary texts: the session is in a dex-guess    *)
(* round whose expected answer and typed guess are drawn from bounded sets, *)
(* and the guess is submitted.                                              *)

TextAlphabet == {"M", "m", "1", " ", "."}

RECURSIVE TextsUpTo(_)
TextsUpTo(n) ==
  IF n = 0 THEN { <<>> }
  ELSE LET shorter == TextsUpTo(n - 1)
       IN  shorter \cup { Append(text, ch) : text \in shorter, ch \in TextAlphabet }

MrDotMime == <<"M","r","."," ","M","i","m","e">>

\* names a catalog may give the creature on display
AnswerTexts ==
  { MrDotMime, <<"m","r","-","m","i","m","e">>, <<"m","1">>, <<"M",".">>, <<".">> }

\* what the player may have typed
GuessTexts ==
  TextsUpTo(MaxLen)
    \cup { <<"m","r"," ","m","i","m","e">>, <<"M","R","-","M","I","M","E">>,
           <<"m","r","m","i","m","e">>, <<"m","r"," ","m","i","m","e","e">> }

DexCreature(name) ==
  [id |-> 122, name |-> name, stats |-> Stats(40, 45, 65, 100, 120, 90),
   moves |-> <<"tackle", "psychic">>, flavorText |-> "It is a pantomime expert."]

\* a dex-guess round on a one-creature catalog, the guess typed
DexInit ==
  /\ \E answer \in AnswerTexts, text \in GuessTexts :
       /\ pokemon = << DexCreature(answer) >>
       /\ dexAnswer = answer /\ dexGuess = text
  /\ dataset = << pokemon >> /\ popularFile = <<>> /\ popularMoves = <<>>
  /\ mode = "dex-guess" /\ status = "ready" /\ focus = 1
  /\ left = 0 /\ right = 0 /\ stat = "attack" /\ moveName = "" /\ guess = "null"
  /\ score = 0 /\ compareScore = 0 /\ trueFalseScore = 0 /\ dexScore = 0
  /\ error = "" /\ lastKeptId = {} /\ movePool = "all"
  /\ localStorage = NoStore
  /\ statHighScore = 0 /\ compareHighScore = 0 /\ trueFalseHighScore = 0
  /\ dexHighScore = 0
  /\ revealFrame = <<>> /\ resultTimer = <<>> /\ dexTimerRef = <<>>
  /\ loading = FALSE /\ modeChanges = 1
  /\ isTrue = "none" /\ superseded = {} /\ ignored = FALSE /\ gaveUp = FALSE
  /\ written = {} /\ run = Idle

DexNext == HandleDexSubmit

DexSpec == DexInit /\ [][DexNext]_vars

----------------------------------------------------------------------------
(* The autocomplete list on catalogs with more names than it shows *)

Chars(a, b, c, d) == SelectSeq(<<a, b, c, d>>, LAMBDA ch : ch # "")

\* catalog names, ten of which begin with m once normalized
SuggestNames ==
  << Chars("a","b","r","a"), Chars("m","e","w",""), <<"m","r","-","m","i","m","e">>,
     Chars("m","1","",""), Chars("m","m","",""), Chars("m","-","m",""),
     Chars("m","m","1",""), Chars("m","m","m",""), Chars("m","1","m",""),
     Chars("m","i","m","e"), Chars("m","m","-","m"), Chars("1","m","","") >>

SuggestCatalog(n) ==
  [i \in 1..n |-> [DexCreature(SuggestNames[i]) EXCEPT !.id = i]]

SuggestCatalogs == { SuggestCatalog(3), SuggestCatalog(Len(SuggestNames)) }

\* a dex-guess round on one of the catalogs, the guess typed
SuggestInit ==
  /\ \E catalog \in SuggestCatalogs, text \in GuessTexts :
       /\ pokemon = catalog /\ dexGuess = text
       /\ \E i \in 1..Len(catalog) : focus = i /\ dexAnswer = catalog[i].name
  /\ dataset = << pokemon >> /\ popularFile = <<>> /\ popularMoves = <<>>
  /\ mode = "dex-guess" /\ status = "ready"
  /\ left = 0 /\ right = 0 /\ stat = "attack" /\ moveName = "" /\ guess = "null"
  /\ score = 0 /\ compareScore = 0 /\ trueFalseScore = 0 /\ dexScore = 0
  /\ error = "" /\ lastKeptId = {} /\ movePool = "all"
  /\ localStorage = NoStore
  /\ statHighScore = 0 /\ compareHighScore = 0 /\ trueFalseHighScore = 0
  /\ dexHighScore = 0
  /\ revealFrame = <<>> /\ resultTimer = <<>> /\ dexTimerRef = <<>>
  /\ loading = FALSE /\ modeChanges = 1
  /\ isTrue = "none" /\ superseded = {} /\ ignored = FALSE /\ gaveUp = FALSE
  /\ written = {} /\ run = Idle

SuggestNext == SetDexGuess \/ PickSuggestion \/ HandleDexSubmit

SuggestSpec == SuggestInit /\ [][SuggestNext]_vars

----------------------------------------------------------------------------
(* The retry loops of the generators, one pass per step.  run holds the     *)
(* locals of the call in progress: pc is "loop", "outer" or "inner" at the  *)
(* head of a while loop and "done" once the call has returned; out tells    *)
(* what it returned ("null", "value") or did ("round", "void").             *)

\* pickRandomPokemon(excludeId): up to `let guard = 0`
pickRandomPokemonEnter(pk, excludeId) ==
  IF Len(pk) = 0
    THEN { [Idle EXCEPT !.fn = "pickRandomPokemon", !.excludeId = excludeId, !.out = "null"] }
    ELSE { [Idle EXCEPT !.fn = "pickRandomPokemon", !.excludeId = excludeId,
                        !.pc = "loop", !.candidate = c] : c \in DOMAIN pk }

\* one test of the while condition of pickRandomPokemon and the pass or the
\* return that follows
pickRandomPokemonStep(pk, r) ==
  IF Truthy(r.excludeId) /\ pk[r.candidate].id \in r.excludeId /\ r.guard < GuardLimit
    THEN { [r EXCEPT !.candidate = c, !.guard = @ + 1] : c \in DOMAIN pk }
    ELSE { [r EXCEPT !.pc = "done", !.out = "value"] }

pickDexPokemonEnter(pk) ==
  IF Len(pk) = 0
    THEN { [Idle EXCEPT !.fn = "pickDexPokemon", !.out = "null"] }
    ELSE { [Idle EXCEPT !.fn = "pickDexPokemon", !.pc = "loop", !.candidate = c] :
             c \in DOMAIN pk }

pickDexPokemonStep(pk, r) ==
  IF pk[r.candidate].flavorText = "" /\ r.guard < GuardLimit
    THEN { [r EXCEPT !.candidate = c, !.guard = @ + 1] : c \in DOMAIN pk }
    ELSE { [r EXCEPT !.pc = "done", !.out = "value"] }

\* startStatRound(keep): up to `let guard = 0`
startStatRoundEnter(pk, keep) ==
  IF Len(pk) < 2 THEN { [Idle EXCEPT !.fn = "startStatRound", !.out = "void"] }
  ELSE UNION { { [Idle EXCEPT !.fn = "startStatRound", !.pc = "loop", !.left = nextLeft,
                              !.right = nextRight, !.stat = nextStat] :
                   nextRight \in pickRandomPokemon(pk, {pk[nextLeft].id}),
                   nextStat \in StatKeySet } :
               nextLeft \in (IF keep # 0 THEN {keep} ELSE pickRandomPokemon(pk, {})) }

startStatRoundStep(pk, r) ==
  IF r.guard < GuardLimit /\ r.right # 0
       /\ pk[r.left].stats[r.stat] = pk[r.right].stats[r.stat]
    THEN { [r EXCEPT !.right = nextRight, !.stat = nextStat, !.guard = @ + 1] :
             nextRight \in pickRandomPokemon(pk, {pk[r.left].id}),
             nextStat \in StatKeySet }
    ELSE { [r EXCEPT !.pc = "done", !.out = "round"] }

\* `continue` without `attempts += 1`
RetryUncounted(r) == [r EXCEPT !.pc = "outer"]

\* `attempts += 1; continue`
Retry(r) == [r EXCEPT !.attempts = @ + 1, !.pc = "outer"]

startMoveCompareRoundEnter(pk) ==
  IF Len(pk) < 2 THEN { [Idle EXCEPT !.fn = "startMoveCompareRound", !.out = "void"] }
  ELSE { [Idle EXCEPT !.fn = "startMoveCompareRound", !.pc = "outer"] }

\* at "outer": one test of `attempts < 80` and the pass up to the inner
\* loop; at "inner": one test of the inner while condition and what follows
startMoveCompareRoundStep(c, r) ==
  LET pk == c.pokemon
  IN  IF r.pc = "outer"
        THEN IF r.attempts < AttemptLimit
               THEN UNION { UNION { IF movePick = "" THEN { Retry(r) }
                                    ELSE { [r EXCEPT !.pc = "inner", !.left = leftPick,
                                                     !.move = movePick, !.right = rightPick,
                                                     !.guard = 0] :
                                             rightPick \in pickRandomPokemon(pk, {pk[leftPick].id}) } :
                                      movePick \in pickMoveFrom(pk[leftPick], activeMoveSet(c)) } :
                            leftPick \in pickRandomPokemon(pk, {}) }
               ELSE { [r EXCEPT !.pc = "done", !.out = "void"] }
        ELSE IF r.right # 0 /\ r.guard < GuardLimit /\ Includes(pk[r.right].moves, r.move)
               THEN { [r EXCEPT !.right = rightPick, !.guard = @ + 1] :
                        rightPick \in pickRandomPokemon(pk, {pk[r.left].id}) }
             ELSE IF r.right = 0 THEN { Retry(r) }
             ELSE { [r EXCEPT !.pc = "done", !.out = "round"] }

startTrueFalseRoundEnter(pk) ==
  IF Len(pk) = 0 THEN { [Idle EXCEPT !.fn = "startTrueFalseRound", !.out = "void"] }
  ELSE { [Idle EXCEPT !.fn = "startTrueFalseRound", !.pc = "outer"] }

\* one test of `attempts < 80` and the pass that follows
startTrueFalseRoundStep(c, r) ==
  LET pk == c.pokemon
      set == [r EXCEPT !.pc = "done", !.out = "round"]
  IN  IF r.attempts < AttemptLimit
        THEN UNION { UNION {
               IF movePick = "" THEN { Retry(r) }
               ELSE { [set EXCEPT !.left = pick, !.move = movePick] }
                    \cup UNION { IF other = 0 THEN { Retry(r) }
                                 ELSE { IF falseMove = "" \/ Includes(pk[pick].moves, falseMove)
                                          THEN Retry(r)
                                          ELSE [set EXCEPT !.left = pick, !.move = falseMove] :
                                        falseMove \in pickMoveFrom(pk[other], activeMoveSet(c)) } :
                                   other \in pickRandomPokemon(pk, {pk[pick].id}) } :
                 movePick \in pickMoveFrom(pk[pick], activeMoveSet(c)) } :
               pick \in pickRandomPokemon(pk, {}) }
        ELSE { [r EXCEPT !.pc = "done", !.out = "void"] }

PickRandomPokemonStep ==
  /\ run.fn = "pickRandomPokemon" /\ run.pc # "done"
  /\ run' \in pickRandomPokemonStep(pokemon, run)
  /\ UNCHANGED pageVars

PickDexPokemonStep ==
  /\ run.fn = "pickDexPokemon" /\ run.pc # "done"
  /\ run' \in pickDexPokemonStep(pokemon, run)
  /\ UNCHANGED pageVars

StartStatRoundStep ==
  /\ run.fn = "startStatRound" /\ run.pc # "done"
  /\ run' \in startStatRoundStep(pokemon, run)
  /\ UNCHANGED pageVars

StartMoveCompareRoundStep ==
  /\ run.fn = "startMoveCompareRound" /\ run.pc # "done"
  /\ run' \in startMoveCompareRoundStep(S, run)
  /\ UNCHANGED pageVars

StartTrueFalseRoundStep ==
  /\ run.fn = "startTrueFalseRound" /\ run.pc # "done"
  /\ run' \in startTrueFalseRoundStep(S, run)
  /\ UNCHANGED pageVars

\* a creature whose id is 0
Unnumbered == [Mew EXCEPT !.id = 0]

\* the catalogs and curated lists the calls are made on
LoopCatalogs ==
  { <<>>, <<Abra>>, <<MrMime, Abra>>, <<MrMime, Abra, Mew>>, <<Unnumbered, Abra>> }

LoopMoveLists ==
  { <<>>, << [moves |-> [smogon |-> <<"psychic">>, vgc |-> <<>>,
                         combined |-> <<"psychic">>]] >> }

\* the ids a call of pickRandomPokemon may be given: none, or the id of a
\* creature
ExcludeIds(pk) == { {} } \cup { {pk[i].id} : i \in DOMAIN pk } \cup { {MrMime.id} }

\* a loaded page on which one of the generators has just been called
LoopInit ==
  /\ \E catalog \in LoopCatalogs, list \in LoopMoveLists, pool \in MovePools :
       /\ pokemon = catalog /\ popularMoves = list
       /\ movePool = (IF list = <<>> THEN "all" ELSE pool)
  /\ dataset = << pokemon >> /\ popularFile = popularMoves
  /\ mode = "menu" /\ status = "ready" /\ focus = 0
  /\ left = 0 /\ right = 0 /\ stat = "attack" /\ moveName = "" /\ guess = "null"
  /\ score = 0 /\ compareScore = 0 /\ trueFalseScore = 0 /\ dexScore = 0
  /\ dexGuess = <<>> /\ dexAnswer = <<>>
  /\ error = "" /\ lastKeptId = {}
  /\ localStorage = NoStore
  /\ statHighScore = 0 /\ compareHighScore = 0 /\ trueFalseHighScore = 0
  /\ dexHighScore = 0
  /\ revealFrame = <<>> /\ resultTimer = <<>> /\ dexTimerRef = <<>>
  /\ loading = FALSE /\ modeChanges = 0
  /\ isTrue = "none" /\ superseded = {} /\ ignored = FALSE /\ gaveUp = FALSE
  /\ written = {}
  /\ run \in UNION { pickRandomPokemonEnter(pokemon, x) : x \in ExcludeIds(pokemon) }
               \cup pickDexPokemonEnter(pokemon)
               \cup UNION { startStatRoundEnter(pokemon, keep) : keep \in 0..Len(pokemon) }
               \cup startMoveCompareRoundEnter(pokemon)
               \cup startTrueFalseRoundEnter(pokemon)

LoopNext ==
  \/ PickRandomPokemonStep
  \/ PickDexPokemonStep
  \/ StartStatRoundStep
  \/ StartMoveCompareRoundStep
  \/ StartTrueFalseRoundStep

LoopSpec == LoopInit /\ [][LoopNext]_vars

\* A call that has been entered keeps running: the generators are
\* synchronous code.
LoopFairSpec == LoopInit /\ [][LoopNext]_vars /\ WF_vars(LoopNext)

----------------------------------------------------------------------------
(* Vocabulary of the properties *)

CurrentScore ==
  CASE mode = "stat" -> score
    [] mode = "move-compare" -> compareScore
    [] mode = "move-truefalse" -> trueFalseScore
    [] mode = "dex-guess" -> dexScore
    [] OTHER -> 0

CurrentHighScore ==
  CASE mode = "stat" -> statHighScore
    [] mode = "move-compare" -> compareHighScore
    [] mode = "move-truefalse" -> trueFalseHighScore
    [] mode = "dex-guess" -> dexHighScore
    [] OTHER -> 0

\* the verdict on the current guess in the current mode
CurrentCorrect ==
  CASE mode = "stat" -> isStatCorrect(S)
    [] mode = "move-compare" -> isMoveCompareCorrect(S)
    [] mode = "move-truefalse" -> isTrueFalseCorrect(S)
    [] mode = "dex-guess" -> isDexCorrect(S)
    [] OTHER -> FALSE

Larger(a, b) == IF a >= b THEN a ELSE b

NoCallbackPending == revealFrame = <<>> /\ resultTimer = <<>> /\ dexTimerRef = <<>>

----------------------------------------------------------------------------
(* Properties *)

\* C1: every stat-duel round has different values of the chosen stat on its
\* two sides (in stat mode every left/right pair was set by startStatRound).
C1_StatValuesDiffer ==
  (mode = "stat" /\ left # 0 /\ right # 0)
    => pokemon[left].stats[stat] # pokemon[right].stats[stat]

\* C2: in every move-match round exactly one of left and right knows the
\* presented move.
C2_ExactlyOneKnowsMove ==
  (mode = "move-compare" /\ left # 0 /\ right # 0)
    => (Includes(pokemon[left].moves, moveName) # Includes(pokemon[right].moves, moveName))

\* C3: a true/false round agrees with the branch that produced it: focus knows
\* the presented move when the generator chose a true statement and does not
\* know it when the generator chose a false one.
C3_TrueFalseMatchesBranch ==
  (mode = "move-truefalse" /\ focus # 0 /\ isTrue # "none")
    => /\ isTrue = "true" => Includes(pokemon[focus].moves, moveName)
       /\ isTrue = "false" => ~Includes(pokemon[focus].moves, moveName)

\* a false statement is on display
C3_Witness ==
  /\ mode = "move-truefalse" /\ status = "ready" /\ focus # 0 /\ isTrue = "false"
  /\ ~Includes(pokemon[focus].moves, moveName)

\* C4: the focus of every dex-guess round has a non-empty flavorText, and the
\* expected answer is its name.
C4_DexFocusHasFlavorText ==
  (mode = "dex-guess" /\ focus # 0)
    => (pokemon[focus].flavorText # "" /\ dexAnswer = pokemon[focus].name)

\* C5: after a correct stat-duel guess the next round is not the same
\* unordered pair of creature ids as the round just won.
C5_NoPairTwiceInARow ==
  [][ (mode = "stat" /\ mode' = "stat" /\ status = "result" /\ status' = "ready"
         /\ score' = score + 1)
        => {pokemon'[left'].id, pokemon'[right'].id} # {pokemon[left].id, pokemon[right].id} ]_vars

\* C6: no step lowers the high score of any mode.
C6_HighScoreNeverDecreases ==
  [][ /\ statHighScore' >= statHighScore
      /\ compareHighScore' >= compareHighScore
      /\ trueFalseHighScore' >= trueFalseHighScore
      /\ dexHighScore' >= dexHighScore ]_vars

\* a streak of one has ended and raised the stat-duel high score from 0
C6_Witness ==
  mode = "stat" /\ status = "gameover" /\ score = 1 /\ statHighScore = 1

\* C7: when the verdict on an incorrect guess is delivered (the result timeout
\* fires, or a dex guess is submitted) status becomes gameover: the pending
\* result timeout and handleDexSubmit set it, and every step that ends the
\* result status of such a round, or the ready status of such a dex round,
\* within the mode ends in gameover (the settling of the dataset load
\* included, which sets status itself); every step
\* into gameover leaves the running score alone and sets the mode's high
\* score to the larger of the high score and the running score; so in
\* gameover the high score is at least the running score.
C7_IncorrectGuessEndsGame ==
  /\ []( (mode \in {"stat", "move-compare", "move-truefalse"} /\ resultTimer # <<>>
            /\ ~CurrentCorrect)
          => \A r \in resultTimeout(resultTimer[1], [S EXCEPT !.resultTimer = <<>>]) :
               r.status = "gameover" )
  /\ []( (mode = "dex-guess" /\ status = "ready" /\ dexAnswer # <<>> /\ ~CurrentCorrect)
          => handleDexSubmit(S).status = "gameover" )
  /\ [][ ( /\ ~CurrentCorrect /\ mode' = mode /\ status' # status
           /\ \/ mode \in {"stat", "move-compare", "move-truefalse"} /\ status = "result"
              \/ mode = "dex-guess" /\ status = "ready" /\ dexAnswer # <<>> )
         => status' = "gameover" ]_vars
  /\ [][ (status # "gameover" /\ status' = "gameover")
         => /\ mode' = mode
            /\ CurrentScore' = CurrentScore
            /\ CurrentHighScore' = Larger(CurrentHighScore, CurrentScore) ]_vars
  /\ [](status = "gameover" => CurrentHighScore >= CurrentScore)

\* C8: a running score changes only by a correct guess, which adds exactly 1,
\* or by being reset to 0.  In stat duel, move match and true/false the result
\* timeout adds the point and sets status ready in one step: the pending
\* callback does both, and every step that ends the result status of a
\* correctly guessed round within the mode has done both; in dex guess the
\* submission adds the point and the auto-advance timeout it schedules sets
\* status ready.
C8_ScoreCountsCorrectGuesses ==
  /\ [][ /\ score' # score
           => \/ score' = 0
              \/ /\ score' = score + 1 /\ mode = "stat" /\ status = "result"
                 /\ isStatCorrect(S) /\ status' = "ready"
         /\ compareScore' # compareScore
           => \/ compareScore' = 0
              \/ /\ compareScore' = compareScore + 1 /\ mode = "move-compare"
                 /\ status = "result" /\ isMoveCompareCorrect(S) /\ status' = "ready"
         /\ trueFalseScore' # trueFalseScore
           => \/ trueFalseScore' = 0
              \/ /\ trueFalseScore' = trueFalseScore + 1 /\ mode = "move-truefalse"
                 /\ status = "result" /\ isTrueFalseCorrect(S) /\ status' = "ready"
         /\ dexScore' # dexScore
           => \/ dexScore' = 0
              \/ /\ dexScore' = dexScore + 1 /\ mode = "dex-guess" /\ status = "ready"
                 /\ isDexCorrect(S) /\ status' = "result" /\ dexTimerRef' # <<>> ]_vars
  /\ []( (mode \in {"stat", "move-compare", "move-truefalse"} /\ resultTimer # <<>>
            /\ CurrentCorrect)
          => \A r \in resultTimeout(resultTimer[1], [S EXCEPT !.resultTimer = <<>>]) :
               /\ r.status = "ready"
               /\ <<r.score, r.compareScore, r.trueFalseScore>>
                    = CASE mode = "stat" -> <<score + 1, compareScore, trueFalseScore>>
                        [] mode = "move-compare" -> <<score, compareScore + 1, trueFalseScore>>
                        [] OTHER -> <<score, compareScore, trueFalseScore + 1>> )
  /\ [][ ( /\ mode \in {"stat", "move-compare", "move-truefalse"} /\ status = "result"
           /\ CurrentCorrect /\ mode' = mode /\ status' # status )
         => (CurrentScore' = CurrentScore + 1 /\ status' = "ready") ]_vars
  /\ []( (mode = "dex-guess" /\ status = "ready" /\ dexAnswer # <<>> /\ CurrentCorrect)
          => (handleDexSubmit(S).dexScore = dexScore + 1
              /\ handleDexSubmit(S).status = "result") )
  /\ []( dexTimerRef # <<>>
          => \A r \in dexTimeout(dexTimerRef[1], [S EXCEPT !.dexTimerRef = <<>>]) :
               r.status = "ready" )
  /\ [][ (dexTimerRef # <<>> /\ dexTimerRef' = <<>> /\ mode' = mode) => status' = "ready" ]_vars

\* a correct dex guess has been counted and the next entry is on display
C8_Witness ==
  mode = "dex-guess" /\ status = "ready" /\ dexScore = 1 /\ focus # 0 /\ dexTimerRef = <<>>

\* C9: the running score of a mode is 0 right after the mode is entered and
\* right after a restart.
C9_ScoreZeroOnEntryAndRestart ==
  [][ /\ (mode' # mode /\ mode' \in GameModes) => CurrentScore' = 0
      /\ HandleRestart => CurrentScore' = 0 ]_vars

\* C10: a mode change leaves no timer or animation frame pending, so none
\* that was scheduled before it can fire afterwards; and whatever is pending
\* belongs to the session on display: a frame to a stat duel that is
\* revealing, a result timeout to status result and a closure that agrees
\* with the current render on all it reads, a dex timeout to a dex guess in
\* status result.
C10_ModeChangeCancelsCallbacks ==
  /\ [][ mode' # mode => NoCallbackPending' ]_vars
  /\ [](revealFrame # <<>> => (mode = "stat" /\ status = "revealing"))
  /\ [](resultTimer # <<>> => (status = "result" /\ ResultDeps(resultTimer[1]) = ResultDeps(S)))
  /\ [](dexTimerRef # <<>> => (mode = "dex-guess" /\ status = "result"
                                 /\ dexTimerRef[1].mode = "dex-guess"))

\* the page is back at the menu after a mode change issued during the dex
\* auto-advance pause, with nothing pending
C10_Witness == mode = "menu" /\ "dex" \in superseded /\ NoCallbackPending

\* C11: at most one timer or animation-frame callback is pending at any time,
\* in every mode.
C11_AtMostOnePending == Cardinality(Pending(S)) <= 1

\* C12: whenever status is revealing it eventually becomes result, unless the
\* player leaves stat duel, given that requested animation frames are
\* delivered.  Stated for the sessions whose catalog load has settled, where
\* no other event is outstanding.
C12_RevealingLeadsToResult ==
  (status = "revealing" /\ ~loading) ~> (status = "result" \/ mode # "stat")

\* C13: status changes only along loading->ready, ready->revealing (stat duel),
\* revealing->result, ready->result (the other modes), result->ready and
\* result->gameover, or is reset to ready by a restart or a mode change;
\* revealing occurs only in stat duel.
C13_StatusEdges ==
  /\ [][ status' # status
          => \/ status = "loading" /\ status' = "ready"
             \/ status = "ready" /\ status' = "revealing" /\ mode = "stat"
             \/ status = "revealing" /\ status' = "result"
             \/ status = "ready" /\ status' = "result" /\ mode # "stat"
             \/ status = "result" /\ status' \in {"ready", "gameover"}
             \/ status' = "ready" /\ (HandleRestart \/ HandleModeChange) ]_vars
  /\ [](status = "revealing" => mode = "stat")

\* C14: a guess made while status is not ready changes neither guess, status,
\* score nor high score, and handleDexSubmit called while status is not ready
\* changes nothing; an accepted guess or submission is made in status ready
\* and moves status off ready, so no second one is accepted before status is
\* ready again.
C14_OneGuessPerRound ==
  /\ [](mode = "dex-guess" /\ status # "ready" => handleDexSubmit(S) = S)
  /\ [][ ignored'
          => UNCHANGED <<guess, status, score, compareScore, trueFalseScore, dexScore,
                         statHighScore, compareHighScore, trueFalseHighScore,
                         dexHighScore>> ]_vars
  /\ [][ (guess' # guess /\ guess' # "null") => (status = "ready" /\ status' # "ready") ]_vars
  /\ [][ (mode = "dex-guess" /\ status = "ready" /\ dexAnswer # <<>> /\ HandleDexSubmit)
          => status' # "ready" ]_vars

\* a second click on a card during the reveal of a stat duel was ignored
C14_Witness ==
  ignored /\ mode = "stat" /\ status = "revealing" /\ guess # "null" /\ left # 0

\* C15: status gameover is left only by a restart (or by leaving the mode);
\* a restart sets the running score of the mode to 0 and status to ready.
C15_GameoverUntilRestart ==
  /\ [][ (status = "gameover" /\ status' # "gameover" /\ mode' = mode) => HandleRestart ]_vars
  /\ [][ (status = "gameover" /\ mode' = mode /\ HandleRestart)
          => (CurrentScore' = 0 /\ status' = "ready") ]_vars

\* C16: when the catalog load fails, status is never ready.
C16_NeverReadyWhenLoadFails == (dataset = <<>>) => status # "ready"

\* the round on display: left, right, focus, move, stat and expected answer
Round == <<left, right, focus, moveName, stat, dexAnswer>>

\* C17: a round generator that runs out of its retry budget produces no
\* round: the round state is what it was before the call (cleared, when the
\* event was a mode change, which clears it before the generator runs).
C17_ExhaustedGeneratorLeavesRound ==
  [][ gaveUp' => IF mode' # mode
                   THEN left' = 0 /\ right' = 0 /\ focus' = 0 /\ moveName' = "" /\ dexAnswer' = <<>>
                   ELSE Round' = Round ]_vars

\* C18: after a round generator ran out of its retry budget the session is
\* in status ready with no question on display.
C18_NoQuestionAfterGivingUp ==
  gaveUp => (status = "ready" /\ left = 0 /\ right = 0 /\ focus = 0)

\* the letters and digits of the texts of the model, and the upper-case
\* letter of each lower-case one
LowerLetters == {"a", "b", "e", "i", "m", "r", "w"}
Digits == {"0", "1", "2", "9"}
UpperOf ==
  [c \in LowerLetters |->
     CASE c = "a" -> "A" [] c = "b" -> "B" [] c = "e" -> "E" [] c = "i" -> "I"
       [] c = "m" -> "M" [] c = "r" -> "R" [] c = "w" -> "W"]

\* value in lower case with every character outside [a-z0-9] removed
RECURSIVE LowerAlnumOnly(_)
LowerAlnumOnly(value) ==
  IF value = <<>> THEN <<>>
  ELSE LET c == Head(value)
           lower == IF \E l \in LowerLetters : UpperOf[l] = c
                      THEN CHOOSE l \in LowerLetters : UpperOf[l] = c
                      ELSE c
       IN  IF lower \in LowerLetters \cup Digits
             THEN <<lower>> \o LowerAlnumOnly(Tail(value))
             ELSE LowerAlnumOnly(Tail(value))

ToUpperCase(value) ==
  [i \in 1..Len(value) |-> IF value[i] \in LowerLetters THEN UpperOf[value[i]] ELSE value[i]]

InsertAt(value, i, ch) == SubSeq(value, 1, i) \o <<ch>> \o SubSeq(value, i + 1, Len(value))

\* C19: a dex submission is judged correct (status result, else gameover)
\* exactly when guess and expected answer are equal once lower-cased and
\* stripped of every character outside [a-z0-9]; for the expected answer
\* "Mr. Mime" the guesses "mr mime", "MR-MIME" and "mrmime" are correct and
\* "mr mimee" is not.
C19_DexJudgedByNormalizedEquality ==
  /\ [][ (mode = "dex-guess" /\ status = "ready" /\ dexAnswer # <<>> /\ HandleDexSubmit)
          => /\ (status' = "result") = (LowerAlnumOnly(dexGuess) = LowerAlnumOnly(dexAnswer))
             /\ (status' = "gameover") = (LowerAlnumOnly(dexGuess) # LowerAlnumOnly(dexAnswer)) ]_vars
  /\ [][ (mode = "dex-guess" /\ status = "ready" /\ dexAnswer = MrDotMime /\ HandleDexSubmit)
          => /\ dexGuess \in { <<"m","r"," ","m","i","m","e">>, <<"M","R","-","M","I","M","E">>,
                                <<"m","r","m","i","m","e">> } => status' = "result"
             /\ dexGuess = <<"m","r"," ","m","i","m","e","e">> => status' = "gameover" ]_vars

\* "MR-MIME" was submitted for "Mr. Mime" and judged correct
C19_Witness ==
  /\ status = "result" /\ dexScore = 1 /\ dexAnswer = MrDotMime
  /\ dexGuess = <<"M","R","-","M","I","M","E">>

\* C20: normalizeAnswer is idempotent, and its result does not depend on
\* letter case or on punctuation: upper-casing the text or inserting a
\* character outside [a-z0-9] anywhere leaves it unchanged; "Mr. Mime" and
\* "mr-mime" normalise to the same text.
C20_NormalizeIdempotent ==
  /\ \A value \in {dexGuess, dexAnswer} :
       /\ normalizeAnswer(normalizeAnswer(value)) = normalizeAnswer(value)
       /\ normalizeAnswer(ToUpperCase(value)) = normalizeAnswer(value)
       /\ \A i \in 0..Len(value), ch \in {" ", ".", "-"} :
            normalizeAnswer(InsertAt(value, i, ch)) = normalizeAnswer(value)
  /\ normalizeAnswer(MrDotMime) = normalizeAnswer(<<"m","r","-","m","i","m","e">>)

\* a guess in upper case with punctuation was normalised to "mrmime" and
\* judged
C20_Witness ==
  /\ dexGuess = <<"M","R","-","M","I","M","E">> /\ status # "ready"
  /\ normalizeAnswer(dexGuess) = <<"m","r","m","i","m","e">>

\* C21: while no curated move list is loaded the active move set is null (no
\* filter) under every move-pool option, so the move generators draw from
\* all the moves of a creature.
C21_NoCuratedListNoFilter ==
  popularMoves = <<>>
    => \A p \in MovePools :
         /\ activeMovePool([S EXCEPT !.movePool = p]) = <<>>
         /\ activeMoveSet([S EXCEPT !.movePool = p]) = <<>>
         /\ \A i \in DOMAIN pokemon :
              MovePoolOf(pokemon[i], activeMoveSet([S EXCEPT !.movePool = p])) = pokemon[i].moves

\* a move-match round was generated without a curated list, on a move that
\* the curated list of that catalog does not contain
C21_Witness ==
  /\ popularMoves = <<>> /\ popularFile # <<>> /\ mode = "move-compare"
  /\ left # 0 /\ right # 0 /\ moveName = "tackle"

\* C22: localStorage.setItem is called only with a high score greater than
\* 0: no call writes 0, each call writes the high score of its key, and while
\* every high score is 0 (a fresh session without a scored game) nothing is
\* written and the store stays as it was found.
C22_StoreWrittenOnlyAboveZero ==
  /\ \A w \in written : w[2] > 0 /\ w[2] = HighScoreOf(S, w[1])
                         /\ localStorage[w[1]] = w[2]
  /\ (\A key \in StorageKeys : HighScoreOf(S, key) = 0)
       => (written = {} /\ localStorage = NoStore)

\* a stat game ended with the first point on record: the record was written
C22_Witness ==
  /\ mode = "stat" /\ status = "gameover" /\ score = 1
  /\ written = { <<HIGH_SCORE_KEYS.stat, 1>> }

\* the catalog names whose normalized form starts with the normalized guess
Matching ==
  { i \in 1..Len(pokemon) :
      StartsWith(normalizeAnswer(pokemon[i].name), normalizeAnswer(dexGuess)) }

\* C23 as stated: the autocomplete list holds at most 8 catalog names, the
\* normalized form of each being a prefix of the normalized partial guess,
\* and does not bear on the judgement of the guess.
C23_AsStated ==
  /\ Len(dexSuggestions(S)) <= 8
  /\ \A k \in 1..Len(dexSuggestions(S)) :
       /\ \E i \in 1..Len(pokemon) : pokemon[i].name = dexSuggestions(S)[k]
       /\ StartsWith(normalizeAnswer(dexGuess), normalizeAnswer(dexSuggestions(S)[k]))
  /\ isDexCorrect(S) = isDexCorrect([S EXCEPT !.pokemon = <<>>])

\* C23 amended: the autocomplete list holds at most 8 catalog names, in
\* catalog order, and the normalized partial guess is a prefix of the
\* normalized form of each; it is empty when the normalized guess is empty,
\* misses a matching name only when it is full, and does not bear on the
\* judgement of the guess: emptying the catalog leaves the judgement as is.
C23_SuggestionsStartWithGuess ==
  /\ Len(dexSuggestions(S)) <= 8
  /\ \A k \in 1..Len(dexSuggestions(S)) :
       /\ \E i \in Matching : pokemon[i].name = dexSuggestions(S)[k]
       /\ StartsWith(normalizeAnswer(dexSuggestions(S)[k]), normalizeAnswer(dexGuess))
  /\ normalizeAnswer(dexGuess) = <<>> => dexSuggestions(S) = <<>>
  /\ (normalizeAnswer(dexGuess) # <<>> /\ Len(dexSuggestions(S)) < 8)
       => Len(dexSuggestions(S)) = Cardinality(Matching)
  /\ isDexCorrect(S) = isDexCorrect([S EXCEPT !.pokemon = <<>>])
  /\ isDexCorrect(S) = (normalizeAnswer(dexGuess) = normalizeAnswer(dexAnswer))

\* more than eight names match the guess, eight are offered, the expected
\* answer is among them and the guess as it stands would be judged wrong
C23_Witness ==
  /\ mode = "dex-guess" /\ status = "ready"
  /\ Cardinality(Matching) > 8 /\ Len(dexSuggestions(S)) = 8
  /\ \E k \in 1..8 : dexSuggestions(S)[k] = dexAnswer
  /\ ~isDexCorrect(S)

\* the creature the player chose in the current stat round, and the other one
Winner == IF guess = "left" THEN left ELSE right
Loser == IF guess = "left" THEN right ELSE left

\* a step from the result of a stat round to the next stat round
StatRoundWon == mode = "stat" /\ status = "result" /\ mode' = "stat" /\ status' = "ready"

\* C24 as stated: after a correct stat guess the next left creature is the
\* member of the won pair whose id is not the lastKeptId in force, and
\* lastKeptId becomes the id of the winner.
C24_AsStated ==
  [][ StatRoundWon
        => /\ left' \in {left, right} /\ {pokemon[left'].id} # lastKeptId
           /\ lastKeptId' = {pokemon[Winner].id} ]_vars

\* C24 amended: after a correct stat guess the next left creature is the
\* winner of the round, unless the winner's id is the lastKeptId in force
\* and then it is the loser; lastKeptId becomes the id of that next left
\* creature, which is the loser's id in the second case.  Whenever exactly
\* one member of the pair has an id other than lastKeptId, it is the one
\* kept.
C24_CarryIsKept ==
  [][ StatRoundWon
        => /\ left # 0 /\ right # 0 /\ guess # "null" /\ isStatCorrect(S)
           /\ left' = (IF {pokemon[Winner].id} = lastKeptId THEN Loser ELSE Winner)
           /\ lastKeptId' = {pokemon[left'].id}
           /\ score' = score + 1
           /\ \A keep \in {left, right} :
                (/\ {pokemon[keep].id} # lastKeptId
                 /\ \E other \in {left, right} : {pokemon[other].id} = lastKeptId)
                  => left' = keep ]_vars

\* two stat rounds in a row were won on a catalog of several creatures: the
\* creature on the left is the one kept
C24_Witness ==
  /\ mode = "stat" /\ status = "ready" /\ score = 2 /\ Len(pokemon) > 1
  /\ left # 0 /\ right # 0 /\ left # right /\ lastKeptId = {pokemon[left].id}

\* C25: pickRandomPokemon returns null exactly when the catalog is empty;
\* called with the id of a creature on a catalog that holds a creature of
\* another id, it returns a creature of another id unless guard has reached
\* 40, every draw having been of the excluded id.
C25_PickAvoidsExcludedId ==
  (run.fn = "pickRandomPokemon" /\ run.pc = "done")
    => /\ (run.out = "null") = (Len(pokemon) = 0)
       /\ (/\ run.excludeId # {}
            /\ \E i \in DOMAIN pokemon : pokemon[i].id \notin run.excludeId)
            => (pokemon[run.candidate].id \notin run.excludeId \/ run.guard = GuardLimit)

\* C26: every generator call returns: guard never exceeds 40 in
\* pickRandomPokemon, pickDexPokemon, startStatRound and the inner loop of
\* startMoveCompareRound, attempts never exceeds 80 in startMoveCompareRound
\* and startTrueFalseRound, each pass moves one of the counters up by one or
\* returns, and every call that was entered is eventually done.
C26_GeneratorsTerminate ==
  /\ [](run.guard <= 40 /\ run.attempts <= 80)
  /\ [][ \/ run'.pc = "done"
         \/ run'.guard = run.guard + 1 /\ run'.attempts = run.attempts
         \/ run'.attempts = run.attempts + 1
         \/ run.pc = "outer" /\ run'.pc = "inner" /\ run'.guard = 0
              /\ run'.attempts = run.attempts ]_run
  /\ <>(run.pc = "done")

\* startMoveCompareRound returned without a round after 80 attempts, each of
\* which found no move to ask about
C26_Witness ==
  /\ run.fn = "startMoveCompareRound" /\ run.pc = "done" /\ run.out = "void"
  /\ run.attempts = 80 /\ Len(pokemon) >= 2

\* C27: in every move-match round with a guess made, the guess is judged
\* correct exactly when the creature on the chosen side knows the presented
\* move.
C27_CorrectIffChosenKnowsMove ==
  (mode = "move-compare" /\ left # 0 /\ right # 0 /\ guess \in {"left", "right"})
    => (isMoveCompareCorrect(S)
          = Includes(pokemon[IF guess = "left" THEN left ELSE right].moves, moveName))

\* C28: a mode change leaves status ready, no guess and no lastKeptId, and on
\* the way back to the menu, where no round is generated, no left, right,
\* focus, move or expected answer.
C28_ModeChangeResetsSession ==
  [][ mode' # mode
        => /\ status' = "ready" /\ guess' = "null" /\ lastKeptId' = {}
           /\ mode' = "menu"
                => (left' = 0 /\ right' = 0 /\ focus' = 0 /\ moveName' = ""
                    /\ dexAnswer' = <<>>) ]_vars

\* C29: status leaves ready for revealing, result or gameover, which only
\* handleGuess and handleDexSubmit bring about, only while the mode has a
\* current round: left and right in stat and move-match, focus and move in
\* true/false, the expected answer in dex-guess.
C29_GuessNeedsRound ==
  [][ (status = "ready" /\ status' \in {"revealing", "result", "gameover"})
        => CASE mode \in {"stat", "move-compare"} -> left # 0 /\ right # 0
             [] mode = "move-truefalse" -> focus # 0 /\ moveName # ""
             [] mode = "dex-guess" -> dexAnswer # <<>>
             [] OTHER -> FALSE ]_vars

\* C30: in every move-match round the left creature knows the presented
\* move, and a move-match guess that is judged correct is 'left'.
C30_LeftKnowsMove ==
  (mode = "move-compare" /\ left # 0 /\ right # 0)
    => /\ Includes(pokemon[left].moves, moveName)
       /\ isMoveCompareCorrect(S) => guess = "left"

\* a move-match guess was judged correct in a round whose two creatures
\* differ
C30_Witness ==
  /\ mode = "move-compare" /\ status = "result" /\ left # 0 /\ right # 0
  /\ left # right /\ isMoveCompareCorrect(S) /\ guess = "left"

\* C31: a high score changes only in a step into gameover within its own
\* mode, taken on an incorrect guess (from result in stat duel, move match
\* and true/false, from ready in dex guess), and then becomes the larger of
\* itself and the running score; every other step (correct guess, restart,
\* mode change, move-pool change, load) leaves all four high scores
\* unchanged, and a step into gameover leaves the other three unchanged.
C31_HighScoreChangesOnlyAtGameover ==
  /\ [][ statHighScore' # statHighScore
           => /\ mode = "stat" /\ mode' = "stat" /\ status = "result"
              /\ status' = "gameover" /\ ~isStatCorrect(S)
              /\ statHighScore' = Larger(statHighScore, score) ]_vars
  /\ [][ compareHighScore' # compareHighScore
           => /\ mode = "move-compare" /\ mode' = "move-compare" /\ status = "result"
              /\ status' = "gameover" /\ ~isMoveCompareCorrect(S)
              /\ compareHighScore' = Larger(compareHighScore, compareScore) ]_vars
  /\ [][ trueFalseHighScore' # trueFalseHighScore
           => /\ mode = "move-truefalse" /\ mode' = "move-truefalse" /\ status = "result"
              /\ status' = "gameover" /\ ~isTrueFalseCorrect(S)
              /\ trueFalseHighScore' = Larger(trueFalseHighScore, trueFalseScore) ]_vars
  /\ [][ dexHighScore' # dexHighScore
           => /\ mode = "dex-guess" /\ mode' = "dex-guess" /\ status = "ready"
              /\ status' = "gameover" /\ ~isDexCorrect(S)
              /\ dexHighScore' = Larger(dexHighScore, dexScore) ]_vars
  /\ [][ (status' # "gameover" \/ status = "gameover" \/ mode' # mode)
           => UNCHANGED <<statHighScore, compareHighScore, trueFalseHighScore,
                          dexHighScore>> ]_vars

\* a stat game ended and raised the stat high score to 1, next to a dex high
\* score of 1 that was found in the store and two high scores still 0
C31_Witness ==
  /\ mode = "stat" /\ status = "gameover" /\ statHighScore = 1
  /\ dexHighScore = 1 /\ compareHighScore = 0 /\ trueFalseHighScore = 0
  /\ written = { <<HIGH_SCORE_KEYS.stat, 1>> }

====
